---- MODULE Spec2Model ----
(***************************************************************************)
(* Model of the Prolog-backed grammar validation engine of the Coptic      *)
(* dependency parser (src/coptic_prolog_rules.py, class CopticPrologRules). *)
(*                                                                         *)
(* Word forms are sequences of one-character strings.  Every query the     *)
(* engine issues is a string built by interpolating word forms between     *)
(* single quotes; the Prolog reader then turns the quoted text back into   *)
(* an atom.  That round trip is modelled by ReadQuoted: a doubled quote    *)
(* inside the form reads as one quote, a lone quote ends the atom early    *)
(* and the query raises.                                                   *)
(*                                                                         *)
(* Specifications: Spec calls every public method on any typed text;       *)
(* SpecLetters on letter-only forms with read-only queries; SpecRepeat     *)
(* lets a caller keep a report and repeat the call; SpecMalformed feeds    *)
(* validate_parse_tree arrays of unequal length; SpecParallel interleaves  *)
(* the validate_parse_tree calls of the GUI's worker threads; SpecStartup  *)
(* starts before the grammar is loaded and lets the load fail part of the  *)
(* way; SpecGui is the desktop parser (src/coptic-parser.py): sentence     *)
(* navigation on the GUI thread against the parse thread.                  *)
(***************************************************************************)
EXTENDS Integers, Sequences, FiniteSets, TLC

VARIABLES prolog_initialized, db, pc, op, args, result, earlier, par, gui

vars == <<prolog_initialized, db, pc, op, args, result, earlier, par, gui>>

-----------------------------------------------------------------------------
(* Bounds of the model *)

\* longest word form handed to analyze_morphology
MaxWordLen == 3

\* longest sentence handed to validate_parse_tree
MaxTokens == 2

\* longest sentence handed to check_tripartite_pattern
MaxSentence == 4

\* most copula facts the database is let grow to
MaxCopula == 4

\* most sentences in a parsed document of the desktop parser
MaxDocSentences == 3

-----------------------------------------------------------------------------
(* The grammar loaded by _load_coptic_grammar: facts in assertion order *)

\* the article facts without the long forms
definite_article_short == << <<"ⲡ">>, <<"ⲧ">>, <<"ⲛ">> >>

definite_article ==
  << <<"ⲡ">>, <<"ⲧ">>, <<"ⲛ">>, <<"ⲡ", "ⲉ">>, <<"ⲧ", "ⲉ">>, <<"ⲛ", "ⲉ">> >>

independent_pronoun ==
  << <<"ⲁ", "ⲛ", "ⲟ", "ⲕ">>, <<"ⲛ", "ⲧ", "ⲟ", "ⲕ">>, <<"ⲛ", "ⲧ", "ⲟ">>,
     <<"ⲛ", "ⲧ", "ⲟ", "ϥ">>, <<"ⲛ", "ⲧ", "ⲟ", "ⲥ">>, <<"ⲁ", "ⲛ", "ⲟ", "ⲛ">>,
     <<"ⲛ", "ⲧ", "ⲱ", "ⲧ", "ⲛ">>, <<"ⲛ", "ⲧ", "ⲟ", "ⲟ", "ⲩ">> >>

suffix_pronoun ==
  << <<"ⲓ">>, <<"ⲕ">>, <<"ϥ">>, <<"ⲥ">>, <<"ⲛ">>, <<"ⲧ", "ⲛ">>, <<"ⲟ", "ⲩ">> >>

conjugation_base ==
  << <<"ⲁ">>, <<"ⲛ", "ⲉ">>, <<"ϣ", "ⲁ">>, <<"ⲙ", "ⲡ", "ⲉ">>, <<"ⲙ", "ⲛ">>,
     <<"ⲉ", "ⲣ", "ϣ", "ⲁ", "ⲛ">> >>

copula == << <<"ⲡ", "ⲉ">>, <<"ⲧ", "ⲉ">>, <<"ⲛ", "ⲉ">> >>

\* member/2 lists of the dependency validation rules
SubjectPOS == {"PRON", "NOUN", "PROPN"}

VerbPOS == {"VERB", "AUX"}

NounPOS == {"NOUN", "PROPN"}

ContentPOS == {"VERB", "NOUN", "PRON", "PROPN", "DET", "ADJ", "ADV", "AUX", "NUM"}

Rule(d, h, l) == [dep |-> d, head |-> h, label |-> l]

\* suggest_correction/3 facts in the wrong order: wildcard rows first
suggest_correction_wildcard_first ==
  << Rule("DET", "_", "det"),
     Rule("PRON", "_", "nsubj"),
     Rule("PRON", "VERB", "nsubj"),
     Rule("PRON", "AUX", "nsubj"),
     Rule("NOUN", "_", "obl"),
     Rule("NOUN", "VERB", "obj"),
     Rule("NOUN", "AUX", "nsubj"),
     Rule("VERB", "_", "root"),
     Rule("VERB", "SCONJ", "ccomp"),
     Rule("VERB", "VERB", "ccomp"),
     Rule("AUX", "_", "cop"),
     Rule("ADJ", "NOUN", "amod"),
     Rule("ADV", "_", "advmod"),
     Rule("NUM", "_", "obl"),
     Rule("NUM", "NOUN", "nummod") >>

\* suggest_correction/3 facts, "_" the anonymous variable
suggest_correction ==
  << Rule("DET", "_", "det"),
     Rule("PRON", "VERB", "nsubj"),
     Rule("PRON", "AUX", "nsubj"),
     Rule("PRON", "_", "nsubj"),
     Rule("NOUN", "VERB", "obj"),
     Rule("NOUN", "AUX", "nsubj"),
     Rule("NOUN", "_", "obl"),
     Rule("VERB", "SCONJ", "ccomp"),
     Rule("VERB", "VERB", "ccomp"),
     Rule("VERB", "_", "root"),
     Rule("AUX", "_", "cop"),
     Rule("ADJ", "NOUN", "amod"),
     Rule("ADV", "_", "advmod"),
     Rule("NUM", "NOUN", "nummod"),
     Rule("NUM", "_", "obl") >>

\* the Prolog database after a successful _load_coptic_grammar
LoadedGrammar ==
  [definite_article |-> definite_article,
   independent_pronoun |-> independent_pronoun,
   suffix_pronoun |-> suffix_pronoun,
   conjugation_base |-> conjugation_base,
   copula |-> copula,
   suggest_correction |-> suggest_correction]

\* the database when Prolog() or the load raised: no query is ever issued
EmptyGrammar ==
  [definite_article |-> <<>>,
   independent_pronoun |-> <<>>,
   suffix_pronoun |-> <<>>,
   conjugation_base |-> <<>>,
   copula |-> <<>>,
   suggest_correction |-> <<>>]

\* the groups of facts in the order _load_coptic_grammar asserts them
LoadOrder ==
  <<"definite_article", "independent_pronoun", "suffix_pronoun",
    "conjugation_base", "copula", "suggest_correction">>

\* the database when the load raised after k groups of facts
PartialGrammar(k) ==
  [c \in DOMAIN LoadedGrammar |->
     IF \E j \in 1..k : LoadOrder[j] = c THEN LoadedGrammar[c] ELSE <<>>]

\* an initialisation that sets the flag before it loads the grammar
initialize_prolog_flag_first(k) ==
  [prolog_initialized |-> TRUE, db |-> PartialGrammar(k)]

\* _initialize_prolog when the load gets through k groups: the except branch
\* leaves prolog_initialized False unless every group was loaded
initialize_prolog(k) ==
  [prolog_initialized |-> (k = Len(LoadOrder)), db |-> PartialGrammar(k)]

-----------------------------------------------------------------------------
(* Characters and word forms *)

Quote == "'"

\* letters of the input keyboard that the facts about articles and suffixes use
Letters == {"ⲡ", "ⲧ", "ⲛ", "ⲉ", "ⲣ"}

\* typed text may also hold an apostrophe
Alphabet == Letters \cup {Quote}

RECURSIVE WordsOfLen(_, _)
WordsOfLen(A, n) ==
  IF n = 0 THEN {<<>>}
  ELSE {Append(w, c) : w \in WordsOfLen(A, n - 1), c \in A}

WordsOver(A) == UNION {WordsOfLen(A, n) : n \in 0..MaxWordLen}

Words == WordsOver(Alphabet)

LetterWords == WordsOver(Letters)

IsPrefix(p, w) == Len(p) <= Len(w) /\ SubSeq(w, 1, Len(p)) = p

IsSuffix(s, w) == Len(s) <= Len(w) /\ SubSeq(w, Len(w) - Len(s) + 1, Len(w)) = s

DropPrefix(w, k) == SubSeq(w, k + 1, Len(w))

Range(s) == {s[i] : i \in 1..Len(s)}

-----------------------------------------------------------------------------
(* Query construction and the Prolog reader *)

\* '{word}' read back by Prolog: ok = FALSE when the text is no single atom
RECURSIVE ReadQuoted(_)
ReadQuoted(w) ==
  IF w = <<>> THEN [ok |-> TRUE, atom |-> <<>>]
  ELSE IF Head(w) # Quote
    THEN LET r == ReadQuoted(Tail(w))
         IN [ok |-> r.ok, atom |-> <<Head(w)>> \o r.atom]
  ELSE IF Len(w) >= 2 /\ w[2] = Quote
    THEN LET r == ReadQuoted(Tail(Tail(w)))
         IN [ok |-> r.ok, atom |-> <<Quote>> \o r.atom]
  ELSE [ok |-> FALSE, atom |-> <<>>]

\* a query interpolating these word forms raises
QueryRaises(forms) == \E i \in 1..Len(forms) : ~ReadQuoted(forms[i]).ok

-----------------------------------------------------------------------------
(* Dependency validation rules and the correction table *)

valid_subject_verb(SubjPOS, VerbPOSTag) ==
  SubjPOS \in SubjectPOS /\ VerbPOSTag \in VerbPOS

valid_det_noun(DetPOS, NounPOSTag) == DetPOS = "DET" /\ NounPOSTag \in NounPOS

\* the punctuation rule without its test of the relation
invalid_punct_any_relation(POS, Relation) == POS \in ContentPOS

invalid_punct(POS, Relation) == Relation = "punct" /\ POS \in ContentPOS

\* solutions of suggest_correction(dep_pos, head_pos, Suggestion), clause order
CorrectionSolutions(dep_pos, head_pos) ==
  SelectSeq(db.suggest_correction,
            LAMBDA r : r.dep = dep_pos /\ (r.head = "_" \/ r.head = head_pos))

-----------------------------------------------------------------------------
(* validate_dependency *)

Warning(k, dw, dp, hw, hp, s) ==
  [kind |-> k, dep_word |-> dw, dep_pos |-> dp,
   head_word |-> hw, head_pos |-> hp, suggested |-> s]

Suggestion(dw, dp, rel, s, hp) ==
  [word |-> dw, pos |-> dp, incorrect |-> rel, suggested |-> s, head_pos |-> hp]

\* result dicts whose valid field follows the warnings
DependencyResultStrict(m, ws, ss) ==
  [valid |-> (ws = <<>>), message |-> m, warnings |-> ws, suggestions |-> ss]

DependencyResult(m, ws, ss) ==
  [valid |-> TRUE, message |-> m, warnings |-> ws, suggestions |-> ss]

\* the first if / elif: subject-verb and det-noun checks
AttachmentWarnings(head_word, dep_word, head_pos, dep_pos, relation) ==
  IF relation \in {"nsubj", "csubj"}
    THEN IF valid_subject_verb(dep_pos, head_pos) THEN <<>>
         ELSE <<Warning("Unusual subject-verb", dep_word, dep_pos, head_word, head_pos, "")>>
  ELSE IF relation = "det"
    THEN IF valid_det_noun(dep_pos, head_pos) THEN <<>>
         ELSE <<Warning("Unusual det-noun", dep_word, "", head_word, "", "")>>
  ELSE <<>>

\* a punctuation check whose content-relation warning has no else in front
PunctWarningsBoth(dep_word, head_pos, dep_pos, relation) ==
  IF ~invalid_punct(dep_pos, relation) THEN <<>>
  ELSE LET correction_result == CorrectionSolutions(dep_pos, head_pos)
       IN (IF correction_result # <<>>
             THEN <<Warning("PARSER ERROR suggested", dep_word, dep_pos, <<>>, "",
                            correction_result[1].label)>>
             ELSE <<>>)
          \o <<Warning("PARSER ERROR content relation", dep_word, dep_pos, <<>>, "", "")>>

\* the punctuation check: the warning, with the suggested label when there is one
PunctWarnings(dep_word, head_pos, dep_pos, relation) ==
  IF ~invalid_punct(dep_pos, relation) THEN <<>>
  ELSE LET correction_result == CorrectionSolutions(dep_pos, head_pos)
       IN IF correction_result # <<>>
            THEN <<Warning("PARSER ERROR suggested", dep_word, dep_pos, <<>>, "",
                           correction_result[1].label)>>
            ELSE <<Warning("PARSER ERROR content relation", dep_word, dep_pos, <<>>, "", "")>>

PunctSuggestions(dep_word, head_pos, dep_pos, relation) ==
  IF ~invalid_punct(dep_pos, relation) THEN <<>>
  ELSE LET correction_result == CorrectionSolutions(dep_pos, head_pos)
       IN IF correction_result # <<>>
            THEN <<Suggestion(dep_word, dep_pos, relation,
                              correction_result[1].label, head_pos)>>
            ELSE <<>>

\* the method without its guard on prolog_initialized
validate_dependency_unguarded(head_word, dep_word, head_pos, dep_pos, relation) ==
  IF relation \in {"nsubj", "csubj", "det"} /\ QueryRaises(<<dep_word, head_word>>)
    THEN DependencyResult("Validation error", <<>>, <<>>)
  ELSE IF QueryRaises(<<dep_word>>)
    THEN DependencyResult("Validation error", <<>>, <<>>)
  ELSE DependencyResult("",
         AttachmentWarnings(head_word, dep_word, head_pos, dep_pos, relation)
           \o PunctWarnings(dep_word, head_pos, dep_pos, relation),
         PunctSuggestions(dep_word, head_pos, dep_pos, relation))

\* the method with an except branch that reports the failure as a warning
validate_dependency_reporting(head_word, dep_word, head_pos, dep_pos, relation) ==
  IF ~prolog_initialized THEN DependencyResult("Prolog not available", <<>>, <<>>)
  ELSE IF \/ relation \in {"nsubj", "csubj", "det"} /\ QueryRaises(<<dep_word, head_word>>)
          \/ QueryRaises(<<dep_word>>)
    THEN DependencyResult("Validation error",
                          <<Warning("Validation error", dep_word, dep_pos, head_word,
                                    head_pos, "")>>, <<>>)
  ELSE DependencyResult("",
         AttachmentWarnings(head_word, dep_word, head_pos, dep_pos, relation)
           \o PunctWarnings(dep_word, head_pos, dep_pos, relation),
         PunctSuggestions(dep_word, head_pos, dep_pos, relation))

validate_dependency(head_word, dep_word, head_pos, dep_pos, relation) ==
  IF ~prolog_initialized THEN DependencyResult("Prolog not available", <<>>, <<>>)
  ELSE IF relation \in {"nsubj", "csubj", "det"} /\ QueryRaises(<<dep_word, head_word>>)
    THEN DependencyResult("Validation error", <<>>, <<>>)
  ELSE IF QueryRaises(<<dep_word>>)
    THEN DependencyResult("Validation error", <<>>, <<>>)
  ELSE DependencyResult("",
         AttachmentWarnings(head_word, dep_word, head_pos, dep_pos, relation)
           \o PunctWarnings(dep_word, head_pos, dep_pos, relation),
         PunctSuggestions(dep_word, head_pos, dep_pos, relation))

-----------------------------------------------------------------------------
(* check_tripartite_pattern *)

PatternResult(t, p, d, e) ==
  [is_tripartite |-> t, pattern |-> p, description |-> d, error |-> e]

\* f"{subj} - {cop} - {pred}"
PatternText(subj, cop, pred) ==
  subj \o <<" ", "-", " ">> \o cop \o <<" ", "-", " ">> \o pred

\* tripartite_sentence(S, C, P) :- independent_pronoun(S), copula(C), noun_compatible(P)
tripartite_sentence(Subject, Copula, Predicate) ==
  /\ Subject \in Range(db.independent_pronoun)
  /\ Copula \in Range(db.copula)

\* a detector that slides the three-token window over the whole sentence
check_tripartite_sliding(words, pos_tags) ==
  IF ~prolog_initialized \/ Len(words) < 3 THEN PatternResult(FALSE, <<>>, "", FALSE)
  ELSE LET starts == {i \in 1..(Len(words) - 2) :
                        /\ ~QueryRaises(<<words[i], words[i + 1], words[i + 2]>>)
                        /\ tripartite_sentence(words[i], words[i + 1], words[i + 2])}
       IN IF starts = {} THEN PatternResult(FALSE, <<>>, "", FALSE)
          ELSE LET i == CHOOSE s \in starts : \A t \in starts : s <= t
               IN PatternResult(TRUE, PatternText(words[i], words[i + 1], words[i + 2]),
                                "Tripartite nominal sentence", FALSE)

\* a detector without the length guard: a pronoun and a copula are enough
check_tripartite_pairs(words, pos_tags) ==
  IF ~prolog_initialized \/ Len(words) < 2 THEN PatternResult(FALSE, <<>>, "", FALSE)
  ELSE IF QueryRaises(<<words[1], words[2]>>) THEN PatternResult(FALSE, <<>>, "", TRUE)
  ELSE IF tripartite_sentence(ReadQuoted(words[1]).atom, ReadQuoted(words[2]).atom, <<>>)
    THEN PatternResult(TRUE, PatternText(words[1], words[2], <<>>),
                       "Tripartite nominal sentence", FALSE)
  ELSE PatternResult(FALSE, <<>>, "", FALSE)

check_tripartite_pattern(words, pos_tags) ==
  IF ~prolog_initialized \/ Len(words) < 3 THEN PatternResult(FALSE, <<>>, "", FALSE)
  ELSE LET subj == words[1]
           cop == words[2]
           pred == words[3]
       IN IF QueryRaises(<<subj, cop, pred>>) THEN PatternResult(FALSE, <<>>, "", TRUE)
          ELSE IF tripartite_sentence(ReadQuoted(subj).atom, ReadQuoted(cop).atom,
                                      ReadQuoted(pred).atom)
            THEN PatternResult(TRUE, PatternText(subj, cop, pred),
                               "Tripartite nominal sentence", FALSE)
          ELSE PatternResult(FALSE, <<>>, "", FALSE)

-----------------------------------------------------------------------------
(* validate_parse_tree *)

Min(a, b) == IF a <= b THEN a ELSE b

\* zip(words, pos_tags, heads, deprels) stops at the shortest sequence
ZipLen(words, pos_tags, heads, deprels) ==
  Min(Min(Len(words), Len(pos_tags)), Min(Len(heads), Len(deprels)))

\* if head > 0 and head <= len(words)
NotRoot(head, words) == head > 0 /\ head <= Len(words)

\* pos_tags[head - 1] raises IndexError for an edge the guard lets through
EdgeRaises(words, pos_tags, head) == NotRoot(head, words) /\ head > Len(pos_tags)

\* the loop body with an out-of-range head clamped to the last token
EdgeWarningsClamped(words, pos_tags, heads, deprels, i) ==
  IF heads[i] > 0
    THEN LET h == Min(heads[i], Len(words))
         IN validate_dependency(words[h], words[i], pos_tags[h],
                                pos_tags[i], deprels[i]).warnings
    ELSE <<>>

\* the loop body with "head >= 0": head 0 reads words[-1], the last token
EdgeWarningsFromZero(words, pos_tags, heads, deprels, i) ==
  IF heads[i] >= 0 /\ heads[i] <= Len(words)
    THEN LET h == IF heads[i] = 0 THEN Len(words) ELSE heads[i]
         IN validate_dependency(words[h], words[i], pos_tags[h],
                                pos_tags[i], deprels[i]).warnings
    ELSE <<>>

\* what edge i adds to results["warnings"]
EdgeWarnings(words, pos_tags, heads, deprels, i) ==
  IF NotRoot(heads[i], words)
    THEN validate_dependency(words[heads[i]], words[i], pos_tags[heads[i]],
                             pos_tags[i], deprels[i]).warnings
    ELSE <<>>

\* a loop that puts the entries of later edges in front
RECURSIVE LoopWarningsReversed(_, _, _, _, _)
LoopWarningsReversed(words, pos_tags, heads, deprels, i) ==
  IF i > ZipLen(words, pos_tags, heads, deprels) THEN <<>>
  ELSE LoopWarningsReversed(words, pos_tags, heads, deprels, i + 1)
         \o EdgeWarnings(words, pos_tags, heads, deprels, i)

RECURSIVE LoopWarnings(_, _, _, _, _)
LoopWarnings(words, pos_tags, heads, deprels, i) ==
  IF i > ZipLen(words, pos_tags, heads, deprels) THEN <<>>
  ELSE EdgeWarnings(words, pos_tags, heads, deprels, i)
         \o LoopWarnings(words, pos_tags, heads, deprels, i + 1)

TreeResult(v, m, ws, ss, ps) ==
  [validated |-> v, message |-> m, warnings |-> ws, suggestions |-> ss,
   patterns_found |-> ps]

\* the method without its try/except: the IndexError of an edge propagates
validate_parse_tree_unguarded(words, pos_tags, heads, deprels) ==
  IF ~prolog_initialized THEN TreeResult(FALSE, "Prolog not available", <<>>, <<>>, <<>>)
  ELSE IF \E i \in 1..ZipLen(words, pos_tags, heads, deprels) :
            EdgeRaises(words, pos_tags, heads[i])
    THEN [raised |-> "IndexError"]
  ELSE TreeResult(TRUE, "", LoopWarnings(words, pos_tags, heads, deprels, 1), <<>>,
                  IF check_tripartite_pattern(words, pos_tags).is_tripartite
                    THEN <<check_tripartite_pattern(words, pos_tags)>> ELSE <<>>)

validate_parse_tree(words, pos_tags, heads, deprels) ==
  IF ~prolog_initialized THEN TreeResult(FALSE, "Prolog not available", <<>>, <<>>, <<>>)
  ELSE IF \E i \in 1..ZipLen(words, pos_tags, heads, deprels) :
            EdgeRaises(words, pos_tags, heads[i])
    THEN TreeResult(FALSE, "error", <<>>, <<>>, <<>>)
  ELSE LET tripartite == check_tripartite_pattern(words, pos_tags)
       IN TreeResult(TRUE, "",
            LoopWarnings(words, pos_tags, heads, deprels, 1),
            <<>>,
            IF tripartite.is_tripartite THEN <<tripartite>> ELSE <<>>)

-----------------------------------------------------------------------------
(* analyze_morphology *)

\* solutions of strip_article(W, Lemma): first clause per article, then second
StripArticleSolutions(W) ==
  LET stripping == SelectSeq(db.definite_article,
                             LAMBDA a : IsPrefix(a, W) /\ Len(W) > Len(a))
      clause1 == [i \in 1..Len(stripping) |-> DropPrefix(W, Len(stripping[i]))]
      clause2 == IF \E i \in 1..Len(db.definite_article) :
                      IsPrefix(db.definite_article[i], W)
                   THEN <<>> ELSE <<W>>
  IN clause1 \o clause2

\* atom_concat(Base, Suffix, W) enumerates the splits by growing Base
Splits(W) ==
  [k \in 1..(Len(W) + 1) |->
     [Base |-> SubSeq(W, 1, k - 1), Suffix |-> SubSeq(W, k, Len(W))]]

\* solutions of has_suffix_pronoun(W, Base, Suffix)
SuffixSolutions(W) ==
  SelectSeq(Splits(W),
            LAMBDA s : s.Suffix \in Range(db.suffix_pronoun) /\ Len(s.Base) > 0)

\* str.replace(old, ''): drops the non-overlapping occurrences, left to right
RECURSIVE Replace(_, _)
Replace(s, old) ==
  IF old = <<>> \/ Len(s) < Len(old) THEN s
  ELSE IF SubSeq(s, 1, Len(old)) = old
    THEN Replace(SubSeq(s, Len(old) + 1, Len(s)), old)
  ELSE <<Head(s)>> \o Replace(Tail(s), old)

MorphResult(w, an, err, ha, le, ar, hs, ba, su) ==
  [word |-> w, analyzed |-> an, error |-> err,
   has_article |-> ha, lemma |-> le, article |-> ar,
   has_suffix |-> hs, base |-> ba, suffix |-> su]

analyze_morphology(word) ==
  IF ~prolog_initialized
    THEN MorphResult(word, FALSE, FALSE, FALSE, <<>>, <<>>, FALSE, <<>>, <<>>)
  ELSE IF QueryRaises(<<word>>)
    THEN MorphResult(word, TRUE, TRUE, FALSE, <<>>, <<>>, FALSE, <<>>, <<>>)
  ELSE LET W == ReadQuoted(word).atom
           results == StripArticleSolutions(W)
           has_article == results # <<>> /\ results[1] # word
           suffixes == SuffixSolutions(W)
           has_suffix == suffixes # <<>>
       IN MorphResult(word, TRUE, FALSE,
            has_article,
            IF has_article THEN results[1] ELSE <<>>,
            IF has_article THEN Replace(word, results[1]) ELSE <<>>,
            has_suffix,
            IF has_suffix THEN suffixes[1].Base ELSE <<>>,
            IF has_suffix THEN suffixes[1].Suffix ELSE <<>>)

-----------------------------------------------------------------------------
(* query_prolog, for the queries suggest_correction('D', 'H', Suggestion) *)

query_prolog(dep_pos, head_pos) ==
  IF ~prolog_initialized THEN [found |-> FALSE, Suggestion |-> ""]
  ELSE LET results == CorrectionSolutions(dep_pos, head_pos)
       IN IF results # <<>> THEN [found |-> TRUE, Suggestion |-> results[1].label]
          ELSE [found |-> FALSE, Suggestion |-> ""]

\* query_prolog on the goal assertz(copula('Form')): the goal succeeds once
\* with no bindings and the fact is added behind the loaded ones
query_prolog_assertz(form) ==
  IF ~prolog_initialized THEN [found |-> FALSE, Suggestion |-> "", db |-> db]
  ELSE [found |-> TRUE, Suggestion |-> "",
        db |-> [db EXCEPT !.copula = Append(@, form)]]

-----------------------------------------------------------------------------
(* parse_coptic_text: the validation step of the parse pipeline *)

\* if prolog and prolog.prolog_initialized: validate, show patterns and warnings
parse_coptic_text(words, pos_tags, heads, deprels) ==
  LET validation == validate_parse_tree(words, pos_tags, heads, deprels)
  IN [parsed |-> TRUE,
      tokens |-> words,
      validated |-> prolog_initialized,
      patterns |-> IF prolog_initialized THEN validation.patterns_found ELSE <<>>,
      warnings |-> IF prolog_initialized THEN validation.warnings ELSE <<>>]

-----------------------------------------------------------------------------
(* Inputs *)

\* universal POS tags of the tagger, with one the rules do not know ("X")
PosTags == ContentPOS \cup {"PUNCT", "SCONJ", "X"}

Relations == {"nsubj", "csubj", "det", "punct", "obj"}

\* word forms of single edges made of letters
LetterForms == {<<"ⲡ", "ⲉ">>, <<"ⲣ", "ⲉ">>}

\* word forms of single edges: of letters, with a lone quote, with a doubled quote
DepForms == {<<"ⲡ", "ⲉ">>, <<"ⲣ", Quote>>, <<Quote, Quote>>}

\* tagged and labelled tokens the parser hands over, heads left open
LetterTokens ==
  { [form |-> <<"ⲁ", "ⲛ", "ⲟ", "ⲕ">>, pos |-> "PRON", rel |-> "nsubj"],
    [form |-> <<"ⲡ", "ⲉ">>, pos |-> "AUX", rel |-> "punct"],
    [form |-> <<"ⲣ", "ⲉ">>, pos |-> "VERB", rel |-> "punct"],
    [form |-> <<"ⲣ", "ⲉ">>, pos |-> "PROPN", rel |-> "punct"],
    [form |-> <<"ⲡ">>, pos |-> "DET", rel |-> "det"],
    [form |-> <<"ⲣ", "ⲉ">>, pos |-> "NOUN", rel |-> "obj"],
    [form |-> <<"ⲛ">>, pos |-> "PUNCT", rel |-> "punct"] }

\* the same, and a token that holds an apostrophe
ParsedTokens ==
  LetterTokens \cup {[form |-> <<"ⲣ", Quote>>, pos |-> "VERB", rel |-> "punct"]}

HeadsOf(n) == (0 - 1)..(n + 1)

\* word forms of the sentences searched for the tripartite pattern
LetterSentenceForms == {<<"ⲁ", "ⲛ", "ⲟ", "ⲕ">>, <<"ⲡ", "ⲉ">>, <<"ⲣ", "ⲉ">>}

\* the same, and a form that holds an apostrophe
SentenceForms == LetterSentenceForms \cup {<<"ⲣ", Quote>>}

\* tags of the tokens of these sentences
SentenceTags == {"PRON", "X"}

\* inputs of the calls a caller repeats and of the calls made in between
RepeatTokens ==
  { [form |-> <<"ⲣ", "ⲉ">>, pos |-> "VERB", rel |-> "punct"],
    [form |-> <<"ⲣ", Quote>>, pos |-> "AUX", rel |-> "nsubj"] }

\* every token hangs from the root or from the last token
RepeatHeads(n) == {0, n}

RepeatTags == {"VERB", "PUNCT"}

RepeatRelations == {"punct", "nsubj"}

RepeatSentenceForms == {<<"ⲁ", "ⲛ", "ⲟ", "ⲕ">>, <<"ⲡ", "ⲉ">>}

\* sentences the worker threads validate
ParallelSentences ==
  { [words |-> << <<"ⲣ", "ⲉ">>, <<"ⲡ", "ⲉ">> >>, pos_tags |-> <<"VERB", "AUX">>,
     heads |-> <<2, 0>>, deprels |-> <<"punct", "root">>],
    [words |-> << <<"ⲡ">>, <<"ⲣ", "ⲉ">> >>, pos_tags |-> <<"DET", "NOUN">>,
     heads |-> <<2, 0>>, deprels |-> <<"det", "root">>],
    [words |-> << <<"ⲁ", "ⲛ", "ⲟ", "ⲕ">>, <<"ⲡ", "ⲉ">>, <<"ⲣ", "ⲉ">> >>,
     pos_tags |-> <<"PRON", "AUX", "NOUN">>,
     heads |-> <<3, 3, 0>>, deprels |-> <<"nsubj", "cop", "root">>] }

\* forms a caller of query_prolog asserts as copula
AssertedForms == {<<"ⲣ", "ⲉ">>}

-----------------------------------------------------------------------------
(* The desktop parser: document, sentence index, buttons, handler, worker *)

\* no sentence of current_doc has been read yet
NotDrawn == [index |-> 0, of |-> 0]

\* CopticParserGUI after __init__: a document is its number of sentences, 0
\* stands for None; handler is the line the GUI thread is at, thread the
\* position of the parse thread, doc its local document, queued the callback
\* handed to root.after, drawn the last read of current_doc.sentences
GuiStart ==
  [current_doc |-> 0, current_sentence_idx |-> 0,
   prev_btn |-> FALSE, next_btn |-> FALSE, parse_button |-> TRUE,
   handler |-> "idle", thread |-> "none", doc |-> 0, queued |-> "none",
   drawn |-> NotDrawn]

\* update_graph_navigation: the buttons follow the document and the index
update_graph_navigation(g) ==
  IF g.current_doc = 0
    THEN [g EXCEPT !.prev_btn = FALSE, !.next_btn = FALSE]
    ELSE [g EXCEPT !.prev_btn = (g.current_sentence_idx > 0),
                   !.next_btn = (g.current_sentence_idx < g.current_doc - 1)]

\* self.current_doc.sentences[self.current_sentence_idx]
draw_current_sentence(g) ==
  [g EXCEPT !.drawn = [index |-> g.current_sentence_idx, of |-> g.current_doc]]

-----------------------------------------------------------------------------
(* The engine as a state machine: one call at a time, then its return *)

\* worker threads of the GUI, each running one validate_parse_tree call
Threads == {1, 2}

\* a thread that runs no call
IdleCall ==
  [pc |-> "idle", args |-> <<>>, i |-> 0, raised |-> FALSE,
   warnings |-> <<>>, patterns |-> <<>>, report |-> <<>>]

\* the caller has kept no report of an earlier validate_parse_tree call
NoReport == [kept |-> FALSE, between |-> FALSE, args |-> <<>>, result |-> <<>>]

Init ==
  /\ \/ prolog_initialized = TRUE /\ db = LoadedGrammar
     \/ prolog_initialized = FALSE /\ db = EmptyGrammar
  /\ pc = "idle"
  /\ op = "none"
  /\ args = <<>>
  /\ result = <<>>
  /\ earlier = NoReport
  /\ par = [calls |-> [t \in Threads |-> IdleCall], open |-> {}]
  /\ gui = GuiStart

\* a validate_dependency that retracts the correction rows it has consulted
ValidateDependencyForgetting(forms, tags, relations) ==
  /\ pc = "idle"
  /\ \E head_word \in forms, dep_word \in forms,
        head_pos \in tags, dep_pos \in tags, relation \in relations :
       /\ args' = [head_word |-> head_word, dep_word |-> dep_word,
                   head_pos |-> head_pos, dep_pos |-> dep_pos, relation |-> relation]
       /\ result' = validate_dependency(head_word, dep_word, head_pos, dep_pos, relation)
       /\ db' = [db EXCEPT !.suggest_correction =
                   SelectSeq(@, LAMBDA r : r.dep # dep_pos)]
  /\ op' = "validate_dependency"
  /\ pc' = "done"
  /\ UNCHANGED <<prolog_initialized, earlier, par, gui>>

ValidateDependencyOver(forms, tags, relations) ==
  /\ pc = "idle"
  /\ \E head_word \in forms, dep_word \in forms,
        head_pos \in tags, dep_pos \in tags, relation \in relations :
       /\ args' = [head_word |-> head_word, dep_word |-> dep_word,
                   head_pos |-> head_pos, dep_pos |-> dep_pos, relation |-> relation]
       /\ result' = validate_dependency(head_word, dep_word, head_pos, dep_pos, relation)
  /\ op' = "validate_dependency"
  /\ pc' = "done"
  /\ UNCHANGED <<prolog_initialized, db, earlier, par, gui>>

ValidateDependencyOf(forms) == ValidateDependencyOver(forms, PosTags, Relations)

AnalyzeMorphologyOf(words) ==
  /\ pc = "idle"
  /\ \E word \in words :
       /\ args' = [word |-> word]
       /\ result' = analyze_morphology(word)
  /\ op' = "analyze_morphology"
  /\ pc' = "done"
  /\ UNCHANGED <<prolog_initialized, db, earlier, par, gui>>

ValidateParseTreeOver(tokens, Heads) ==
  /\ pc = "idle"
  /\ \E n \in 0..MaxTokens :
       \E toks \in [1..n -> tokens], heads \in [1..n -> Heads[n]] :
         LET words == [i \in 1..n |-> toks[i].form]
             pos_tags == [i \in 1..n |-> toks[i].pos]
             deprels == [i \in 1..n |-> toks[i].rel]
         IN /\ args' = [words |-> words, pos_tags |-> pos_tags,
                        heads |-> heads, deprels |-> deprels]
            /\ result' = validate_parse_tree(words, pos_tags, heads, deprels)
  /\ op' = "validate_parse_tree"
  /\ pc' = "done"
  /\ UNCHANGED <<prolog_initialized, db, earlier, par, gui>>

ValidateParseTreeOf(tokens) ==
  ValidateParseTreeOver(tokens, [n \in 0..MaxTokens |-> HeadsOf(n)])

\* validate_parse_tree on parallel arrays of any lengths
ValidateParseTreeMalformed ==
  /\ pc = "idle"
  /\ \E nw \in 0..MaxTokens, np \in 0..MaxTokens, nh \in 0..MaxTokens, nd \in 0..MaxTokens :
       \E words \in [1..nw -> LetterForms], pos_tags \in [1..np -> {"VERB"}],
          heads \in [1..nh -> HeadsOf(MaxTokens)], deprels \in [1..nd -> {"punct"}] :
         /\ args' = [words |-> words, pos_tags |-> pos_tags,
                     heads |-> heads, deprels |-> deprels]
         /\ result' = validate_parse_tree(words, pos_tags, heads, deprels)
  /\ op' = "validate_parse_tree"
  /\ pc' = "done"
  /\ UNCHANGED <<prolog_initialized, db, earlier, par, gui>>

ParseCopticText ==
  /\ pc = "idle"
  /\ \E n \in 0..MaxTokens :
       \E toks \in [1..n -> RepeatTokens], heads \in [1..n -> RepeatHeads(n)] :
         LET words == [i \in 1..n |-> toks[i].form]
             pos_tags == [i \in 1..n |-> toks[i].pos]
             deprels == [i \in 1..n |-> toks[i].rel]
         IN /\ args' = [words |-> words, pos_tags |-> pos_tags,
                        heads |-> heads, deprels |-> deprels]
            /\ result' = parse_coptic_text(words, pos_tags, heads, deprels)
  /\ op' = "parse_coptic_text"
  /\ pc' = "done"
  /\ UNCHANGED <<prolog_initialized, db, earlier, par, gui>>

CheckTripartitePatternOf(forms) ==
  /\ pc = "idle"
  /\ \E n \in 0..MaxSentence :
       \E words \in [1..n -> forms], pos_tags \in [1..n -> SentenceTags] :
         /\ args' = [words |-> words, pos_tags |-> pos_tags]
         /\ result' = check_tripartite_pattern(words, pos_tags)
  /\ op' = "check_tripartite_pattern"
  /\ pc' = "done"
  /\ UNCHANGED <<prolog_initialized, db, earlier, par, gui>>

QueryProlog ==
  /\ pc = "idle"
  /\ \E dep_pos \in PosTags, head_pos \in PosTags :
       /\ args' = [dep_pos |-> dep_pos, head_pos |-> head_pos]
       /\ result' = query_prolog(dep_pos, head_pos)
  /\ op' = "query_prolog"
  /\ pc' = "done"
  /\ UNCHANGED <<prolog_initialized, db, earlier, par, gui>>

\* query_prolog with a goal that asserts a fact
QueryPrologAssertz ==
  /\ pc = "idle"
  /\ Len(db.copula) < MaxCopula
  /\ \E form \in AssertedForms :
       /\ args' = [goal |-> "assertz", category |-> "copula", form |-> form]
       /\ result' = [found |-> query_prolog_assertz(form).found,
                     Suggestion |-> query_prolog_assertz(form).Suggestion]
       /\ db' = query_prolog_assertz(form).db
  /\ op' = "query_prolog_assertz"
  /\ pc' = "done"
  /\ UNCHANGED <<prolog_initialized, earlier, par, gui>>

\* the call returns; the result belongs to the caller
Return ==
  /\ pc = "done"
  /\ pc' = "idle"
  /\ op' = "none"
  /\ args' = <<>>
  /\ result' = <<>>
  /\ earlier' = IF earlier.kept THEN [earlier EXCEPT !.between = TRUE] ELSE earlier
  /\ UNCHANGED <<prolog_initialized, db, par, gui>>

\* validate_parse_tree returns and the caller keeps its input and its report
ReturnKept ==
  /\ pc = "done"
  /\ op = "validate_parse_tree"
  /\ pc' = "idle"
  /\ op' = "none"
  /\ args' = <<>>
  /\ result' = <<>>
  /\ earlier' = [kept |-> TRUE, between |-> FALSE, args |-> args, result |-> result]
  /\ UNCHANGED <<prolog_initialized, db, par, gui>>

-----------------------------------------------------------------------------
(* validate_parse_tree run by several threads on the one engine.  A call goes *)
(* through stage 0, the tripartite check, and then one stage per edge; a     *)
(* stage that consults the engine holds a query open from its begin to its   *)
(* end.  The engine is used without a lock: a query issued while another     *)
(* thread's query is open is a race, and either is answered or raises.       *)

SetCall(t, c) == [par EXCEPT !.calls[t] = c]

\* stage i of the call consults the engine
ConsultsEngine(c) ==
  IF c.i = 0 THEN Len(c.args.words) >= 3
  ELSE NotRoot(c.args.heads[c.i], c.args.words)

\* do_parse calls self.prolog.validate_parse_tree in its thread
ParStart(t) ==
  /\ par.calls[t].pc = "idle"
  /\ \E s \in ParallelSentences :
       par' = SetCall(t,
                IF ~prolog_initialized
                  THEN [IdleCall EXCEPT !.pc = "done", !.args = s,
                          !.report = TreeResult(FALSE, "Prolog not available",
                                                <<>>, <<>>, <<>>)]
                  ELSE [IdleCall EXCEPT !.pc = "at", !.args = s])
  /\ UNCHANGED <<prolog_initialized, db, pc, op, args, result, earlier, gui>>

\* a stage that issues no query
ParSkip(t) ==
  LET c == par.calls[t]
  IN /\ c.pc = "at"
     /\ c.i <= Len(c.args.words)
     /\ ~ConsultsEngine(c)
     /\ par' = SetCall(t, [c EXCEPT !.i = @ + 1])
     /\ UNCHANGED <<prolog_initialized, db, pc, op, args, result, earlier, gui>>

\* the stage opens its query on the engine
ParBegin(t) ==
  LET c == par.calls[t]
  IN /\ c.pc = "at"
     /\ c.i <= Len(c.args.words)
     /\ ConsultsEngine(c)
     /\ \E raised \in (IF par.open = {} THEN {FALSE} ELSE {FALSE, TRUE}) :
          par' = [SetCall(t, [c EXCEPT !.pc = "querying", !.raised = raised])
                    EXCEPT !.open = @ \cup {t}]
     /\ UNCHANGED <<prolog_initialized, db, pc, op, args, result, earlier, gui>>

\* the stage is over: a raised query was caught by the except of the method
\* that issued it, an answered one adds what the method returns
ParEnd(t) ==
  LET c == par.calls[t]
      a == c.args
      tripartite == check_tripartite_pattern(a.words, a.pos_tags)
  IN /\ c.pc = "querying"
     /\ par' = [SetCall(t,
                  [c EXCEPT
                     !.pc = "at",
                     !.i = @ + 1,
                     !.raised = FALSE,
                     !.patterns =
                       IF c.i = 0 /\ ~c.raised /\ tripartite.is_tripartite
                         THEN <<tripartite>> ELSE @,
                     !.warnings =
                       IF c.i > 0 /\ ~c.raised
                         THEN @ \o EdgeWarnings(a.words, a.pos_tags, a.heads,
                                                a.deprels, c.i)
                         ELSE @])
                  EXCEPT !.open = @ \ {t}]
     /\ UNCHANGED <<prolog_initialized, db, pc, op, args, result, earlier, gui>>

\* return results
ParFinish(t) ==
  LET c == par.calls[t]
  IN /\ c.pc = "at"
     /\ c.i > Len(c.args.words)
     /\ par' = SetCall(t, [c EXCEPT !.pc = "done",
                                     !.report = TreeResult(TRUE, "", c.warnings,
                                                           <<>>, c.patterns)])
     /\ UNCHANGED <<prolog_initialized, db, pc, op, args, result, earlier, gui>>

\* the thread shows the report and ends
ParReturn(t) ==
  /\ par.calls[t].pc = "done"
  /\ par' = SetCall(t, IdleCall)
  /\ UNCHANGED <<prolog_initialized, db, pc, op, args, result, earlier, gui>>

\* calls on any typed text
ValidateDependency == ValidateDependencyOf(DepForms)

AnalyzeMorphology == AnalyzeMorphologyOf(Words)

ValidateParseTree == ValidateParseTreeOf(ParsedTokens)

CheckTripartitePattern == CheckTripartitePatternOf(SentenceForms)

Next ==
  \/ ValidateDependency
  \/ AnalyzeMorphology
  \/ ValidateParseTree
  \/ CheckTripartitePattern
  \/ ParseCopticText
  \/ QueryProlog
  \/ QueryPrologAssertz
  \/ Return

Spec == Init /\ [][Next]_vars

\* calls on word forms made of letters only
ValidateDependencyLetters == ValidateDependencyOf(LetterForms)

AnalyzeMorphologyLetters == AnalyzeMorphologyOf(LetterWords)

ValidateParseTreeLetters == ValidateParseTreeOf(LetterTokens)

CheckTripartitePatternLetters == CheckTripartitePatternOf(LetterSentenceForms)

NextLetters ==
  \/ ValidateDependencyLetters
  \/ AnalyzeMorphologyLetters
  \/ ValidateParseTreeLetters
  \/ CheckTripartitePatternLetters
  \/ QueryProlog
  \/ Return

SpecLetters == Init /\ [][NextLetters]_vars

\* validation calls only, and a caller that keeps a report to compare
ValidateDependencyRepeat == ValidateDependencyOver(DepForms, RepeatTags, RepeatRelations)

AnalyzeMorphologyRepeat == AnalyzeMorphologyOf(DepForms)

ValidateParseTreeRepeat ==
  ValidateParseTreeOver(RepeatTokens, [n \in 0..MaxTokens |-> RepeatHeads(n)])

CheckTripartitePatternRepeat == CheckTripartitePatternOf(RepeatSentenceForms)

NextRepeat ==
  \/ ValidateDependencyRepeat
  \/ AnalyzeMorphologyRepeat
  \/ ValidateParseTreeRepeat
  \/ CheckTripartitePatternRepeat
  \/ Return
  \/ ReturnKept

SpecRepeat == Init /\ [][NextRepeat]_vars

\* validate_parse_tree on input that is not a well-formed sentence
NextMalformed ==
  \/ ValidateParseTreeMalformed
  \/ Return

SpecMalformed == Init /\ [][NextMalformed]_vars

\* validate_parse_tree calls of the worker threads, interleaved
NextParallel ==
  \E t \in Threads :
    \/ ParStart(t)
    \/ ParSkip(t)
    \/ ParBegin(t)
    \/ ParEnd(t)
    \/ ParFinish(t)
    \/ ParReturn(t)

SpecParallel == Init /\ [][NextParallel]_vars

\* the engine from its construction on: __init__ before _initialize_prolog
InitStartup ==
  /\ prolog_initialized = FALSE
  /\ db = EmptyGrammar
  /\ pc = "new"
  /\ op = "none"
  /\ args = <<>>
  /\ result = <<>>
  /\ earlier = NoReport
  /\ par = [calls |-> [t \in Threads |-> IdleCall], open |-> {}]
  /\ gui = GuiStart

\* create_prolog_engine: the load gets through k groups of facts, and the
\* engine object is handed to the caller either way
CreatePrologEngine ==
  /\ pc = "new"
  /\ \E k \in 0..Len(LoadOrder) :
       /\ prolog_initialized' = initialize_prolog(k).prolog_initialized
       /\ db' = initialize_prolog(k).db
  /\ pc' = "idle"
  /\ UNCHANGED <<op, args, result, earlier, par, gui>>

NextStartup ==
  \/ CreatePrologEngine
  \/ ValidateDependencyRepeat
  \/ AnalyzeMorphologyRepeat
  \/ ValidateParseTreeRepeat
  \/ CheckTripartitePatternRepeat
  \/ ParseCopticText
  \/ Return

SpecStartup == InitStartup /\ [][NextStartup]_vars

-----------------------------------------------------------------------------
(* The desktop parser: the GUI thread runs one handler at a time, a line at *)
(* a step, and the parse thread runs between any two of its lines          *)

GuiStep(g) ==
  /\ gui' = g
  /\ UNCHANGED <<prolog_initialized, db, pc, op, args, result, earlier, par>>

\* parse_text: the button is disabled and the parse thread started
ParseText ==
  /\ gui.handler = "idle"
  /\ gui.parse_button
  /\ GuiStep([gui EXCEPT !.parse_button = FALSE, !.thread = "parsing"])

\* do_parse up to the Doc object: n sentences parsed, none is a ValueError
DoParseBuild ==
  /\ gui.thread = "parsing"
  /\ \E n \in 0..MaxDocSentences :
       IF n = 0
         THEN GuiStep([gui EXCEPT !.thread = "none", !.queued = "show_error"])
         ELSE GuiStep([gui EXCEPT !.thread = "built", !.doc = n])

\* self.current_doc = doc
DoParseInstall ==
  /\ gui.thread = "built"
  /\ GuiStep([gui EXCEPT !.thread = "installed", !.current_doc = gui.doc])

\* self.current_sentence_idx = 0
DoParseReset ==
  /\ gui.thread = "installed"
  /\ GuiStep([gui EXCEPT !.thread = "reset", !.current_sentence_idx = 0])

\* self.root.after(0, self.update_results, ..., doc)
DoParseAfter ==
  /\ gui.thread = "reset"
  /\ GuiStep([gui EXCEPT !.thread = "none", !.queued = "update_results"])

\* update_results on the GUI thread: doc.sentences[0] of the document passed
UpdateResults ==
  /\ gui.handler = "idle"
  /\ gui.queued = "update_results"
  /\ GuiStep([update_graph_navigation([gui EXCEPT !.current_sentence_idx = 0])
               EXCEPT !.queued = "none", !.parse_button = TRUE,
                      !.drawn = [index |-> 0, of |-> gui.doc]])

\* show_error on the GUI thread
ShowError ==
  /\ gui.handler = "idle"
  /\ gui.queued = "show_error"
  /\ GuiStep([gui EXCEPT !.queued = "none", !.parse_button = TRUE])

\* prev_sentence, the guard: if self.current_doc and self.current_sentence_idx > 0
PrevSentence ==
  /\ gui.handler = "idle"
  /\ gui.prev_btn
  /\ gui.current_doc # 0 /\ gui.current_sentence_idx > 0
  /\ GuiStep([gui EXCEPT !.handler = "prev_decrement"])

\* self.current_sentence_idx -= 1
PrevSentenceDecrement ==
  /\ gui.handler = "prev_decrement"
  /\ GuiStep([gui EXCEPT !.handler = "navigation", !.current_sentence_idx = @ - 1])

\* next_sentence, the guard:
\* if self.current_doc and self.current_sentence_idx < len(sentences) - 1
NextSentence ==
  /\ gui.handler = "idle"
  /\ gui.next_btn
  /\ gui.current_doc # 0 /\ gui.current_sentence_idx < gui.current_doc - 1
  /\ GuiStep([gui EXCEPT !.handler = "next_increment"])

\* self.current_sentence_idx += 1
NextSentenceIncrement ==
  /\ gui.handler = "next_increment"
  /\ GuiStep([gui EXCEPT !.handler = "navigation", !.current_sentence_idx = @ + 1])

\* self.update_graph_navigation() of either handler
SentenceNavigation ==
  /\ gui.handler = "navigation"
  /\ GuiStep([update_graph_navigation(gui) EXCEPT !.handler = "draw"])

\* self.draw_dependency_tree(self.current_doc.sentences[self.current_sentence_idx])
SentenceDraw ==
  /\ gui.handler = "draw"
  /\ GuiStep([draw_current_sentence(gui) EXCEPT !.handler = "idle"])

NextGui ==
  \/ ParseText
  \/ DoParseBuild
  \/ DoParseInstall
  \/ DoParseReset
  \/ DoParseAfter
  \/ UpdateResults
  \/ ShowError
  \/ PrevSentence
  \/ PrevSentenceDecrement
  \/ NextSentence
  \/ NextSentenceIncrement
  \/ SentenceNavigation
  \/ SentenceDraw

SpecGui == Init /\ [][NextGui]_vars

Called(o) == pc = "done" /\ op = o /\ prolog_initialized

-----------------------------------------------------------------------------
(* Vocabulary of the properties *)

MinOf(S) == CHOOSE m \in S : \A x \in S : m <= x

\* rows of the correction table whose pattern covers (d, h)
RowsFor(d, h) ==
  {i \in 1..Len(suggest_correction) :
     /\ suggest_correction[i].dep = d
     /\ suggest_correction[i].head \in {h, "_"}}

\* label of the first covering row, "" when no row covers (d, h)
FirstRowLabel(d, h) ==
  IF RowsFor(d, h) = {} THEN "" ELSE suggest_correction[MinOf(RowsFor(d, h))].label

HasWarning(r, kinds) == \E i \in 1..Len(r.warnings) : r.warnings[i].kind \in kinds

PunctKinds == {"PARSER ERROR suggested", "PARSER ERROR content relation"}

ContentWordAsPunct(pos, rel) ==
  /\ rel = "punct"
  /\ pos \in {"VERB", "NOUN", "PRON", "PROPN", "DET", "ADJ", "ADV", "AUX", "NUM"}

InRange(a, i) == a.heads[i] > 0 /\ a.heads[i] <= Len(a.words)

-----------------------------------------------------------------------------
(* C1 *)

\* C1: the Correction Advisor answers every (dependent_pos, head_pos) with the
\* label of the first row, in table order, that covers the pair; the listed
\* pairs get det, nsubj, obj, nsubj, nummod, obl, and an exact row wins over
\* the wildcard row of the same dependent_pos.
C1_FirstCoveringRowWins ==
  /\ Called("query_prolog") =>
       /\ result.found = (RowsFor(args.dep_pos, args.head_pos) # {})
       /\ result.Suggestion = FirstRowLabel(args.dep_pos, args.head_pos)
       /\ \A i \in 1..Len(suggest_correction) :
            (/\ suggest_correction[i].dep = args.dep_pos
             /\ suggest_correction[i].head = args.head_pos)
              => result.Suggestion = suggest_correction[i].label
       /\ (args.dep_pos = "DET" /\ args.head_pos = "NOUN") => result.Suggestion = "det"
       /\ (args.dep_pos = "PRON" /\ args.head_pos = "VERB") => result.Suggestion = "nsubj"
       /\ (args.dep_pos = "NOUN" /\ args.head_pos = "VERB") => result.Suggestion = "obj"
       /\ (args.dep_pos = "NOUN" /\ args.head_pos = "AUX") => result.Suggestion = "nsubj"
       /\ (args.dep_pos = "NUM" /\ args.head_pos = "NOUN") => result.Suggestion = "nummod"
       /\ (args.dep_pos = "NUM" /\ args.head_pos = "VERB") => result.Suggestion = "obl"
  /\ Called("validate_dependency") =>
       \A i \in 1..Len(result.suggestions) :
         /\ result.suggestions[i].suggested = FirstRowLabel(args.dep_pos, args.head_pos)
         /\ \A k \in 1..Len(suggest_correction) :
              (/\ suggest_correction[k].dep = args.dep_pos
               /\ suggest_correction[k].head = args.head_pos)
                => result.suggestions[i].suggested = suggest_correction[k].label

\* C1 witness: a validated edge NUM -> VERB falls through to the wildcard row
\* although NUM has an exact row for another head
C1_Witness ==
  /\ Called("validate_dependency")
  /\ args.dep_pos = "NUM" /\ args.head_pos = "VERB"
  /\ result.suggestions # <<>>
  /\ result.suggestions[1].suggested = "obl"

-----------------------------------------------------------------------------
(* C2 *)

\* edges of the sentence that are in range, a content word labelled punct,
\* and covered by a row of the correction table
C2_EdgesToCorrect(a) ==
  {i \in 1..Len(a.words) :
     /\ InRange(a, i)
     /\ ContentWordAsPunct(a.pos_tags[i], a.deprels[i])
     /\ RowsFor(a.pos_tags[i], a.pos_tags[a.heads[i]]) # {}}

\* C2: the report of validate_parse_tree holds exactly one suggestion for every
\* in-range edge that is a content word mislabeled as punct and has a covering
\* row in the correction table.
C2_OneSuggestionPerMislabeledEdge ==
  Called("validate_parse_tree") =>
    Len(result.suggestions) = Cardinality(C2_EdgesToCorrect(args))

-----------------------------------------------------------------------------
(* C3 *)

\* C3: the Dependency Validator produces the mislabeled-punctuation warning if
\* and only if the label is punct and the dependent POS is a content POS,
\* whatever the head POS and the two word forms.
C3_PunctWarningIffContentWord ==
  Called("validate_dependency") =>
    (HasWarning(result, PunctKinds)
       <=> ContentWordAsPunct(args.dep_pos, args.relation))

-----------------------------------------------------------------------------
(* C4 *)

C4_Label(head_pos) == IF head_pos \in {"VERB", "SCONJ"} THEN "ccomp" ELSE "root"

\* C4: an edge with dependent POS VERB and label punct always gets a warning
\* and a suggestion, the suggested label being root, or ccomp when the head POS
\* is VERB or SCONJ; both from validate_dependency and in the report of
\* validate_parse_tree.
C4_VerbAsPunctWarnedAndCorrected ==
  /\ (Called("validate_dependency") /\ args.dep_pos = "VERB" /\ args.relation = "punct") =>
       /\ HasWarning(result, PunctKinds)
       /\ Len(result.suggestions) = 1
       /\ result.suggestions[1].suggested = C4_Label(args.head_pos)
  /\ Called("validate_parse_tree") =>
       \A i \in 1..Len(args.words) :
         (InRange(args, i) /\ args.pos_tags[i] = "VERB" /\ args.deprels[i] = "punct") =>
           /\ HasWarning(result, PunctKinds)
           /\ \E k \in 1..Len(result.suggestions) :
                result.suggestions[k].suggested = C4_Label(args.pos_tags[args.heads[i]])

-----------------------------------------------------------------------------
(* C5 *)

\* C5: for an edge labelled nsubj or csubj the validator warns if and only if
\* it is not the case that the dependent POS is PRON, NOUN or PROPN and the
\* head POS is VERB or AUX; an unknown tag yields the warning.
C5_SubjectVerbWarningIff ==
  (Called("validate_dependency") /\ args.relation \in {"nsubj", "csubj"}) =>
    (HasWarning(result, {"Unusual subject-verb"})
       <=> ~(/\ args.dep_pos \in {"PRON", "NOUN", "PROPN"}
             /\ args.head_pos \in {"VERB", "AUX"}))

-----------------------------------------------------------------------------
(* C6 *)

\* C6: for an edge labelled det the validator warns if and only if the head
\* POS is neither NOUN nor PROPN, whatever the dependent's POS.
C6_DetWarningIffHeadNotNoun ==
  (Called("validate_dependency") /\ args.relation = "det") =>
    (HasWarning(result, {"Unusual det-noun"})
       <=> args.head_pos \notin {"NOUN", "PROPN"})

-----------------------------------------------------------------------------
(* C7 *)

\* the heads of the call with every head beyond the last token set to 0
C7_WithoutOutOfRange(a) ==
  [i \in 1..Len(a.heads) |-> IF a.heads[i] > Len(a.words) THEN 0 ELSE a.heads[i]]

\* C7: a sentence with an edge whose head_index exceeds the number of tokens is
\* validated without error; that edge adds no warning and no suggestion, and
\* the report is the one the sentence gets without that attachment.
C7_OutOfRangeHeadSkipped ==
  (/\ Called("validate_parse_tree")
   /\ \E i \in 1..Len(args.heads) : args.heads[i] > Len(args.words)) =>
    /\ result.validated
    /\ result.message = ""
    /\ result = validate_parse_tree(args.words, args.pos_tags,
                                    C7_WithoutOutOfRange(args), args.deprels)
    /\ (\A i \in 1..Len(args.heads) : ~InRange(args, i)) =>
         (result.warnings = <<>> /\ result.suggestions = <<>>)

\* C7 witness: a content word labelled punct hangs from a head beyond the last
\* token while another edge of the same sentence is warned about
C7_Witness ==
  /\ Called("validate_parse_tree")
  /\ \E i \in 1..Len(args.heads) :
       /\ args.heads[i] > Len(args.words)
       /\ ContentWordAsPunct(args.pos_tags[i], args.deprels[i])
       /\ ReadQuoted(args.words[i]).ok
  /\ Len(result.warnings) = 1

-----------------------------------------------------------------------------
(* C8 *)

\* C8: a word with no listed definite article as a prefix is its own stem and
\* no article is reported for it.
C8_NoArticlePrefixNoArticle ==
  (/\ Called("analyze_morphology")
   /\ \A i \in 1..Len(definite_article) : ~IsPrefix(definite_article[i], args.word)) =>
    /\ ~result.has_article
    /\ result.lemma = <<>>
    /\ result.article = <<>>

-----------------------------------------------------------------------------
(* C9 *)

\* listed articles that are a prefix of w and leave a non-empty remainder
C9_Stripping(w) ==
  {i \in 1..Len(definite_article) :
     IsPrefix(definite_article[i], w) /\ Len(w) > Len(definite_article[i])}

\* C9: when some listed article is a prefix of the word and leaves a non-empty
\* stem, the analysis reports exactly the first such article of the list and
\* the stem after it, even when a later-listed article is a prefix too.
C9_FirstListedArticleStripped ==
  (Called("analyze_morphology") /\ C9_Stripping(args.word) # {}) =>
    LET article == definite_article[MinOf(C9_Stripping(args.word))]
    IN /\ result.has_article
       /\ result.article = article
       /\ result.lemma = DropPrefix(args.word, Len(article))

-----------------------------------------------------------------------------
(* C10 *)

\* listed suffix pronouns that end w and leave a non-empty base
C10_Ending(w) ==
  {i \in 1..Len(suffix_pronoun) :
     IsSuffix(suffix_pronoun[i], w) /\ Len(w) > Len(suffix_pronoun[i])}

\* C10: the suffix reported for a word is the first form of the list
\* (ⲓ, ⲕ, ϥ, ⲥ, ⲛ, ⲧⲛ, ⲟⲩ) that ends the word with a non-empty base left; of
\* two listed forms that both end the word, the one listed earlier wins.
C10_FirstListedSuffixWins ==
  (Called("analyze_morphology") /\ C10_Ending(args.word) # {}) =>
    LET suffix == suffix_pronoun[MinOf(C10_Ending(args.word))]
    IN /\ result.has_suffix
       /\ result.suffix = suffix
       /\ result.base = SubSeq(args.word, 1, Len(args.word) - Len(suffix))

-----------------------------------------------------------------------------
(* C11 *)

\* the three surface forms joined by " - "
C11_Joined(a, b, c) ==
  [i \in 1..(Len(a) + Len(b) + Len(c) + 6) |->
     IF i <= Len(a) THEN a[i]
     ELSE IF i <= Len(a) + 3 THEN <<" ", "-", " ">>[i - Len(a)]
     ELSE IF i <= Len(a) + 3 + Len(b) THEN b[i - Len(a) - 3]
     ELSE IF i <= Len(a) + Len(b) + 6 THEN <<" ", "-", " ">>[i - Len(a) - Len(b) - 3]
     ELSE c[i - Len(a) - Len(b) - 6]]

C11_Matches(words) ==
  /\ Len(words) >= 3
  /\ \E i \in 1..Len(independent_pronoun) : words[1] = independent_pronoun[i]
  /\ \E i \in 1..Len(copula) : words[2] = copula[i]

\* C11: check_tripartite_pattern returns a match if and only if the sentence
\* has at least three tokens, the first is an independent pronoun and the
\* second a copula, whatever the third token is; on a match the pattern text
\* is the three surface forms joined by " - " and the description is the
\* fixed tripartite description.
C11_MatchIffPronounCopula ==
  Called("check_tripartite_pattern") =>
    /\ result.is_tripartite = C11_Matches(args.words)
    /\ C11_Matches(args.words) =>
         /\ result.pattern = C11_Joined(args.words[1], args.words[2], args.words[3])
         /\ result.description = "Tripartite nominal sentence"

-----------------------------------------------------------------------------
(* C12 *)

\* the engine's facts make a pronoun - copula - predicate sequence start at i
C12_PatternAt(words, i) ==
  /\ i + 2 <= Len(words)
  /\ ~QueryRaises(<<words[i], words[i + 1], words[i + 2]>>)
  /\ tripartite_sentence(words[i], words[i + 1], words[i + 2])

\* C12: the result of check_tripartite_pattern depends only on the first three
\* tokens: fewer than three tokens never match, the tokens after the third and
\* the POS tags do not change the result, and a pronoun - copula - predicate
\* sequence that starts at a later position is not detected.
C12_OnlyFirstThreeTokens ==
  Called("check_tripartite_pattern") =>
    /\ Len(args.words) < 3 => ~result.is_tripartite
    /\ Len(args.words) >= 3 =>
         result = check_tripartite_pattern(SubSeq(args.words, 1, 3), <<>>)
    /\ ~C12_PatternAt(args.words, 1) => ~result.is_tripartite

\* C12 witness: a four-token sentence whose tokens 2..4 are pronoun, copula,
\* predicate, with mixed POS tags, is reported as no match
C12_Witness ==
  /\ Called("check_tripartite_pattern")
  /\ Len(args.words) = 4
  /\ C12_PatternAt(args.words, 2)
  /\ args.pos_tags[2] # args.pos_tags[3]
  /\ ~result.is_tripartite

-----------------------------------------------------------------------------
(* C13 *)

\* C13: a validate_parse_tree call whose input is identical to that of an
\* earlier call returns the identical report, whatever validation calls were
\* made in between.
C13_SameInputSameReport ==
  (/\ pc = "done"
   /\ op = "validate_parse_tree"
   /\ earlier.kept
   /\ earlier.args = args) => result = earlier.result

\* C13 witness: a sentence that draws a warning is validated again after
\* another call has returned
C13_Witness ==
  /\ Called("validate_parse_tree")
  /\ earlier.kept
  /\ earlier.between
  /\ earlier.args = args
  /\ result.warnings # <<>>

-----------------------------------------------------------------------------
(* C14 *)

\* the entries edge i produces: the warnings of the sentence with every other
\* token hung from the root
C14_EntriesOf(a, i) ==
  validate_parse_tree(a.words, a.pos_tags,
                      [j \in 1..Len(a.heads) |-> IF j = i THEN a.heads[j] ELSE 0],
                      a.deprels).warnings

RECURSIVE C14_InEdgeOrder(_, _)
C14_InEdgeOrder(a, i) ==
  IF i > Len(a.words) THEN <<>>
  ELSE C14_EntriesOf(a, i) \o C14_InEdgeOrder(a, i + 1)

\* C14: within one validate_parse_tree call the entries of the report are in
\* edge index order: the warnings are the entries of edge 1, then those of
\* edge 2, and so on; the same holds for the suggestions of the report.
C14_WarningsInEdgeOrder ==
  (Called("validate_parse_tree") /\ result.validated) =>
    /\ result.warnings = C14_InEdgeOrder(args, 1)
    /\ \A i, j \in 1..Len(result.suggestions) :
         (i < j) =>
           \E e, f \in 1..Len(args.words) :
             /\ e < f
             /\ result.suggestions[i].word = args.words[e]
             /\ result.suggestions[j].word = args.words[f]

\* C14 witness: two edges of one sentence draw different warnings and the
\* report lists the warning of the first edge first
C14_Witness ==
  /\ Called("validate_parse_tree")
  /\ Len(args.words) = 2
  /\ C14_EntriesOf(args, 1) # <<>>
  /\ C14_EntriesOf(args, 2) # <<>>
  /\ C14_EntriesOf(args, 1) # C14_EntriesOf(args, 2)
  /\ result.warnings = C14_EntriesOf(args, 1) \o C14_EntriesOf(args, 2)

-----------------------------------------------------------------------------
(* C15 *)

\* C15: validate_parse_tree never raises for malformed input (empty
\* sequences, parallel arrays of unequal length, head indices of any value):
\* every call returns a report, which is empty when validation failed.
C15_AlwaysReturnsReport ==
  (pc = "done" /\ op = "validate_parse_tree") =>
    /\ DOMAIN result = {"validated", "message", "warnings", "suggestions", "patterns_found"}
    /\ result.validated \in BOOLEAN
    /\ ~result.validated =>
         (result.warnings = <<>> /\ result.suggestions = <<>> /\ result.patterns_found = <<>>)

\* C15 witness: the tag array is shorter than the word array and an edge
\* points at a word that has no tag; the call returns the error report
C15_Witness ==
  /\ Called("validate_parse_tree")
  /\ Len(args.pos_tags) < Len(args.words)
  /\ \E i \in 1..Len(args.heads) :
       /\ i <= ZipLen(args.words, args.pos_tags, args.heads, args.deprels)
       /\ args.heads[i] > Len(args.pos_tags)
       /\ args.heads[i] <= Len(args.words)
  /\ ~result.validated
  /\ result.message = "error"

-----------------------------------------------------------------------------
(* C16 *)

\* C16: when the engine is unavailable every engine operation returns its
\* no-op result, the one it returns without consulting the engine, whatever
\* its arguments, and the parse pipeline skips validation and still returns
\* the parse.
C16_UnavailableEngineIsNoOp ==
  (pc = "done" /\ ~prolog_initialized) =>
    /\ op = "validate_dependency" =>
         /\ result.valid
         /\ result.message = "Prolog not available"
         /\ result.warnings = <<>> /\ result.suggestions = <<>>
    /\ op = "check_tripartite_pattern" =>
         (~result.is_tripartite /\ ~result.error /\ result.pattern = <<>>)
    /\ op = "analyze_morphology" =>
         /\ result.word = args.word
         /\ ~result.analyzed /\ ~result.error
         /\ ~result.has_article /\ ~result.has_suffix
    /\ op = "validate_parse_tree" =>
         /\ ~result.validated
         /\ result.message = "Prolog not available"
         /\ result.warnings = <<>> /\ result.suggestions = <<>>
         /\ result.patterns_found = <<>>
    /\ op = "query_prolog" => ~result.found
    /\ op = "query_prolog_assertz" => (~result.found /\ db = EmptyGrammar)
    /\ op = "parse_coptic_text" =>
         /\ result.parsed
         /\ result.tokens = args.words
         /\ ~result.validated
         /\ result.patterns = <<>> /\ result.warnings = <<>>

\* C16 witness: with the engine unavailable, validate_dependency is called on
\* a content word labelled punct whose form holds an apostrophe, and answers
\* that Prolog is not available
C16_Witness ==
  /\ pc = "done"
  /\ ~prolog_initialized
  /\ op = "validate_dependency"
  /\ ContentWordAsPunct(args.dep_pos, args.relation)
  /\ ~ReadQuoted(args.dep_word).ok
  /\ result.message = "Prolog not available"

-----------------------------------------------------------------------------
(* C17 *)

\* word forms that two categories of the engine's facts have in common
C17_Shared(A, B) == Range(A) \cap Range(B)

\* C17: the five categories of the Fact Base (definite_article,
\* independent_pronoun, suffix_pronoun, conjugation_base, copula) are pairwise
\* disjoint: no word form belongs to two categories.
C17_CategoriesDisjoint ==
  prolog_initialized =>
    /\ C17_Shared(db.definite_article, db.independent_pronoun) = {}
    /\ C17_Shared(db.definite_article, db.suffix_pronoun) = {}
    /\ C17_Shared(db.definite_article, db.conjugation_base) = {}
    /\ C17_Shared(db.definite_article, db.copula) = {}
    /\ C17_Shared(db.independent_pronoun, db.suffix_pronoun) = {}
    /\ C17_Shared(db.independent_pronoun, db.conjugation_base) = {}
    /\ C17_Shared(db.independent_pronoun, db.copula) = {}
    /\ C17_Shared(db.suffix_pronoun, db.conjugation_base) = {}
    /\ C17_Shared(db.suffix_pronoun, db.copula) = {}
    /\ C17_Shared(db.conjugation_base, db.copula) = {}

\* C17 amended: the categories as loaded overlap in exactly four forms: ⲡⲉ, ⲧⲉ
\* and ⲛⲉ are definite articles and copulas, ⲛⲉ is a conjugation base too, and
\* ⲛ is a definite article and a suffix pronoun; every other pair of categories
\* is disjoint, and independent_pronoun shares no form with any category.
C17_SharedFormsAsLoaded ==
  prolog_initialized =>
    /\ C17_Shared(db.definite_article, db.copula) =
         {<<"ⲡ", "ⲉ">>, <<"ⲧ", "ⲉ">>, <<"ⲛ", "ⲉ">>}
    /\ C17_Shared(db.definite_article, db.conjugation_base) = {<<"ⲛ", "ⲉ">>}
    /\ C17_Shared(db.conjugation_base, db.copula) = {<<"ⲛ", "ⲉ">>}
    /\ C17_Shared(db.definite_article, db.suffix_pronoun) = {<<"ⲛ">>}
    /\ C17_Shared(db.definite_article, db.independent_pronoun) = {}
    /\ C17_Shared(db.independent_pronoun, db.suffix_pronoun) = {}
    /\ C17_Shared(db.independent_pronoun, db.conjugation_base) = {}
    /\ C17_Shared(db.independent_pronoun, db.copula) = {}
    /\ C17_Shared(db.suffix_pronoun, db.conjugation_base) = {}
    /\ C17_Shared(db.suffix_pronoun, db.copula) = {}

\* C17 witness: the engine is loaded and analyses ⲛⲉ, a form it holds as
\* definite article, as conjugation base and as copula
C17_Witness ==
  /\ Called("analyze_morphology")
  /\ args.word = <<"ⲛ", "ⲉ">>
  /\ args.word \in Range(db.definite_article)
  /\ args.word \in Range(db.conjugation_base)
  /\ args.word \in Range(db.copula)

-----------------------------------------------------------------------------
(* C18 *)

\* C18: once the engine is initialised its Fact Base and Correction Rule table
\* are the loaded ones in every reachable state: no call of a public operation
\* adds, removes or changes a fact or a rule.
C18_FactsNeverChange ==
  prolog_initialized => db = LoadedGrammar

-----------------------------------------------------------------------------
(* C19 *)

\* C19: in any interleaving of validate_parse_tree calls that run in parallel
\* on the same engine without locking, each call returns exactly the report
\* it returns when it runs alone.
C19_ParallelReportAsAlone ==
  \A t \in Threads :
    par.calls[t].pc = "done" =>
      par.calls[t].report =
        validate_parse_tree(par.calls[t].args.words, par.calls[t].args.pos_tags,
                            par.calls[t].args.heads, par.calls[t].args.deprels)

-----------------------------------------------------------------------------
(* C20 *)

\* C20: when a content word is labelled punct and no row of the correction
\* table covers its POS with the given head POS (PROPN with any head, ADJ with
\* a head that is not NOUN), the validator still produces the
\* mislabeled-punctuation warning, without a suggested label, and produces no
\* suggestion.
C20_BareWarningWithoutRow ==
  (/\ Called("validate_dependency")
   /\ ContentWordAsPunct(args.dep_pos, args.relation)
   /\ RowsFor(args.dep_pos, args.head_pos) = {}) =>
    /\ HasWarning(result, {"PARSER ERROR content relation"})
    /\ ~HasWarning(result, {"PARSER ERROR suggested"})
    /\ result.suggestions = <<>>

-----------------------------------------------------------------------------
(* C21 *)

-----------------------------------------------------------------------------
(* C22 *)

-----------------------------------------------------------------------------
(* C23 *)

\* C23: validate_parse_tree on zero tokens returns a report whose warnings,
\* suggestions and patterns_found are all empty; on one or two tokens it
\* returns an empty patterns_found while the edges are still validated: the
\* report is validated and a content word labelled punct under a head in
\* range has its warning in it.
C23_ShortSentenceNoPattern ==
  Called("validate_parse_tree") =>
    /\ Len(args.words) = 0 =>
         /\ result.validated
         /\ result.warnings = <<>>
         /\ result.suggestions = <<>>
         /\ result.patterns_found = <<>>
    /\ Len(args.words) \in {1, 2} =>
         /\ result.validated
         /\ result.patterns_found = <<>>
         /\ \A i \in 1..Len(args.words) :
              ( /\ InRange(args, i)
                /\ ContentWordAsPunct(args.pos_tags[i], args.deprels[i])
                /\ ~QueryRaises(<<args.words[i]>>) )
                => \E k \in 1..Len(result.warnings) :
                     /\ result.warnings[k].kind \in PunctKinds
                     /\ result.warnings[k].dep_word = args.words[i]

\* C23 witness: a pronoun and a copula alone, the copula labelled punct under
\* the pronoun: no pattern is reported and the edge has its warning
C23_Witness ==
  /\ Called("validate_parse_tree")
  /\ args.words = << <<"ⲁ", "ⲛ", "ⲟ", "ⲕ">>, <<"ⲡ", "ⲉ">> >>
  /\ args.heads[2] = 1
  /\ args.deprels[2] = "punct"
  /\ result.patterns_found = <<>>
  /\ HasWarning(result, PunctKinds)

-----------------------------------------------------------------------------
(* C24 *)

\* the labels of the call with every edge under the root, or under a negative
\* head, labelled l
C24_RootEdgesLabelled(a, l) ==
  [i \in 1..Len(a.deprels) |-> IF a.heads[i] <= 0 THEN l ELSE a.deprels[i]]

\* C24: validate_parse_tree validates an edge only when 0 < head_index <=
\* number of tokens: an edge under the virtual root (head_index 0) or with a
\* negative head_index adds no warning and no suggestion whatever its label
\* and POS: every warning of the report is about an edge whose head is in
\* range, a sentence whose heads are all 0 or negative has an empty report,
\* and the report is the one the sentence gets with its root edges labelled
\* obj, a label no check applies to.
C24_RootEdgeNotValidated ==
  (Called("validate_parse_tree") /\ result.validated) =>
    /\ \A k \in 1..Len(result.warnings) :
         \E i \in 1..Len(args.words) :
           /\ InRange(args, i)
           /\ result.warnings[k].dep_word = args.words[i]
    /\ (\A i \in 1..Len(args.heads) : args.heads[i] <= 0) =>
         (result.warnings = <<>> /\ result.suggestions = <<>>)
    /\ (\E i \in 1..Len(args.heads) : args.heads[i] <= 0) =>
         result = validate_parse_tree(args.words, args.pos_tags, args.heads,
                                      C24_RootEdgesLabelled(args, "obj"))

\* C24 witness: two content words labelled punct, one under the root and one
\* with a negative head, and the report has no warning
C24_Witness ==
  /\ Called("validate_parse_tree")
  /\ Len(args.words) = 2
  /\ args.heads = <<0, 0 - 1>>
  /\ \A i \in 1..2 :
       /\ ContentWordAsPunct(args.pos_tags[i], args.deprels[i])
       /\ ~QueryRaises(<<args.words[i]>>)
  /\ result.validated
  /\ result.warnings = <<>>
  /\ result.suggestions = <<>>

-----------------------------------------------------------------------------
(* C25 *)

\* C25: a suffix pronoun is reported if and only if some listed suffix-pronoun
\* form ends the word and leaves a non-empty base; every reported (base,
\* suffix) has base followed by suffix equal to the word, a non-empty base and
\* a listed suffix; otherwise, as for a word that is exactly one suffix form,
\* none is reported.
C25_SuffixIffListedEnding ==
  Called("analyze_morphology") =>
    /\ result.has_suffix <=> C10_Ending(args.word) # {}
    /\ result.has_suffix =>
         /\ result.base \o result.suffix = args.word
         /\ result.base # <<>>
         /\ \E i \in 1..Len(suffix_pronoun) : result.suffix = suffix_pronoun[i]
    /\ ~result.has_suffix => (result.base = <<>> /\ result.suffix = <<>>)

-----------------------------------------------------------------------------
(* C26 *)

\* C26: whenever the analysis reports an article, the article is one of the
\* listed definite-article forms, the lemma is non-empty, and the article
\* followed by the lemma is the word, also for a word of repeated article
\* characters such as ⲡⲡ.
C26_ArticleThenLemmaIsWord ==
  (Called("analyze_morphology") /\ result.has_article) =>
    /\ \E i \in 1..Len(definite_article) : result.article = definite_article[i]
    /\ result.lemma # <<>>
    /\ result.article \o result.lemma = args.word

-----------------------------------------------------------------------------
(* C27 *)

\* the edges of the call whose head_index is in range
C27_EdgesInRange(a) == {i \in 1..Len(a.words) : InRange(a, i)}

\* C27: each edge contributes at most one warning, the subject-verb, det-noun
\* and mislabeled-punctuation checks being mutually exclusive on the label of
\* the edge: a validate_dependency result has at most one warning, and a
\* validate_parse_tree report never has more warnings than the sentence has
\* edges with a head_index in range.
C27_AtMostOneWarningPerEdge ==
  /\ Called("validate_dependency") =>
       /\ Len(result.warnings) <= 1
       /\ ~(HasWarning(result, {"Unusual subject-verb", "Unusual det-noun"})
             /\ HasWarning(result, PunctKinds))
  /\ Called("validate_parse_tree") =>
       Len(result.warnings) <= Cardinality(C27_EdgesInRange(args))

\* C27 witness: both edges of a two-token sentence are in range and warned,
\* one as a determiner and one as a mislabeled content word: two warnings
C27_Witness ==
  /\ Called("validate_parse_tree")
  /\ Cardinality(C27_EdgesInRange(args)) = 2
  /\ Len(result.warnings) = 2
  /\ HasWarning(result, {"Unusual det-noun"})
  /\ HasWarning(result, PunctKinds)

-----------------------------------------------------------------------------
(* C28 *)

\* edge i of the call is validated and a query made for it raises
C28_QueryRaisesFor(a, i) ==
  /\ InRange(a, i)
  /\ \/ QueryRaises(<<a.words[i]>>)
     \/ /\ a.deprels[i] \in {"nsubj", "csubj", "det"}
        /\ QueryRaises(<<a.words[a.heads[i]]>>)

\* the heads of the call with edge i moved under the root
C28_Detached(a, i) == [j \in 1..Len(a.heads) |-> IF j = i THEN 0 ELSE a.heads[j]]

\* C28: a failure while evaluating one edge is isolated to that edge: when the
\* rule query raised inside validate_dependency the edge contributes no
\* warning, the failure is not reported in the final report, and
\* validate_parse_tree still validates the other edges, later ones included,
\* and returns validated = true with their warnings.
C28_EdgeFailureIsolated ==
  Called("validate_parse_tree") =>
    \A i \in 1..Len(args.words) :
      C28_QueryRaisesFor(args, i) =>
        /\ result.validated
        /\ result.message = ""
        /\ \A k \in 1..Len(result.warnings) :
             result.warnings[k].kind \in
               PunctKinds \cup {"Unusual subject-verb", "Unusual det-noun"}
        /\ QueryRaises(<<args.words[i]>>) =>
             \A k \in 1..Len(result.warnings) :
               result.warnings[k].dep_word # args.words[i]
        /\ result = validate_parse_tree(args.words, args.pos_tags,
                                        C28_Detached(args, i), args.deprels)

\* C28 witness: the query of the first edge raises on an apostrophe, the
\* second edge is a mislabeled content word, and the report is validated with
\* the warning of the second edge alone
C28_Witness ==
  /\ Called("validate_parse_tree")
  /\ Len(args.words) = 2
  /\ C28_QueryRaisesFor(args, 1)
  /\ InRange(args, 2)
  /\ ~QueryRaises(<<args.words[2]>>)
  /\ result.validated
  /\ Len(result.warnings) = 1
  /\ result.warnings[1].dep_word = args.words[2]

-----------------------------------------------------------------------------
(* C29 *)

\* C29: the valid field of every validate_dependency result is true on every
\* path: when the engine is unavailable, when a query raised, and when the
\* result carries warnings or a suggestion; warnings never set valid to false.
C29_ValidAlwaysTrue ==
  (pc = "done" /\ op = "validate_dependency") =>
    /\ result.valid = TRUE
    /\ ~prolog_initialized => result.message = "Prolog not available"
    /\ (prolog_initialized /\ QueryRaises(<<args.dep_word>>)) =>
         result.message = "Validation error"

\* C29 witness: a result with a warning and a suggestion whose valid is true
C29_Witness ==
  /\ Called("validate_dependency")
  /\ Len(result.warnings) = 1
  /\ Len(result.suggestions) = 1
  /\ result.valid

-----------------------------------------------------------------------------
(* C30 *)

\* C30: in the desktop parser, under any interleaving of prev_sentence and
\* next_sentence on the GUI thread with a background parse that replaces
\* current_doc and then resets current_sentence_idx, the index used to read
\* current_doc.sentences is within 0 .. len(sentences) - 1.
C30_IndexWithinDocument ==
  gui.drawn # NotDrawn =>
    (0 <= gui.drawn.index /\ gui.drawn.index <= gui.drawn.of - 1)

====
